---- MODULE Spec2Model ----
(***************************************************************************)
(* Model of the options profit calculator's strategy engine                *)
(* (js/optionsStrategies.js, class OptionsStrategies) and of the parts of  *)
(* the application (OptionsCalculatorApp) that drive it.                   *)
(*                                                                         *)
(* Number representation.  Money amounts (strikes, premiums, cost bases,   *)
(* grid prices, profit/loss) are integers in cents; quantities are plain   *)
(* integers.  The accumulator of generatePriceRange's loop is a JavaScript *)
(* double, and the number of iterations of that loop depends on how each   *)
(* `price += step` rounds, so the accumulator is modelled as an IEEE-754   *)
(* double: an exact integer multiple of ulp(step), rounded to 53           *)
(* significant bits (ties to even) after every operation.  Those integers  *)
(* exceed 32 bits and are held as three 24-bit limbs, least significant    *)
(* first.                                                                  *)
(***************************************************************************)
EXTENDS Integers, Sequences, FiniteSets, TLC

VARIABLES
    pc,            \* generatePriceRange: "idle" | "loop" | "done"
    currentPrice,  \* generatePriceRange argument, in cents
    rangeFactor,   \* generatePriceRange argument, in quarters (6 = 1.5)
    loop,          \* generatePriceRange locals: minPrice, maxPrice, step,
                   \* price, prices (in cents)
    op,            \* engine entry point called last ("none" before any call)
    args,          \* its arguments
    ret,           \* its return value
    calls,         \* the calls of the Pricer it made, in order
    page,          \* the page: "loading" | "ready" | "hung"
    app,           \* OptionsCalculatorApp: currentStrategy, currentLegs,
                   \* marketParams, updateTimeout (the timer set last)
    timers,        \* the timers of the window that are pending
    view,          \* the document: strategySelect, optionsLegs (the inputs of
                   \* each leg), metrics, chart, strategyTable
    catalog,       \* OptionsStrategies.strategies
    aliases,       \* <<key, i, j>>: app.currentLegs[j] is the object
                   \* catalog[key][i]
    lastRun        \* the last run of updateCalculations

engineVars == <<pc, currentPrice, rangeFactor, loop, op, args, ret, calls>>

appVars == <<page, app, timers, view, catalog, aliases, lastRun>>

vars == <<pc, currentPrice, rangeFactor, loop, op, args, ret, calls,
          page, app, timers, view, catalog, aliases, lastRun>>

(***************************************************************************)
(* 72-bit naturals in three 24-bit limbs <<l0, l1, l2>>.                   *)
(***************************************************************************)
Limb == 2^24

BZero == <<0, 0, 0>>

BSmall(x) == <<x % Limb, x \div Limb, 0>>

BAdd(a, b) ==
    LET s0 == a[1] + b[1]
        s1 == a[2] + b[2] + (s0 \div Limb)
        s2 == a[3] + b[3] + (s1 \div Limb)
    IN  <<s0 % Limb, s1 % Limb, s2>>

BMulSmall(a, k) ==
    LET p0 == a[1] * k
        p1 == a[2] * k + (p0 \div Limb)
        p2 == a[3] * k + (p1 \div Limb)
    IN  <<p0 % Limb, p1 % Limb, p2>>

BLeq(a, b) ==
    IF a[3] # b[3] THEN a[3] < b[3]
    ELSE IF a[2] # b[2] THEN a[2] < b[2]
    ELSE a[1] <= b[1]

\* a * 2^k, for a product below 2^72
BShl(a, k) ==
    LET r == k % 24
        b1 == (a[1] % 2^(24 - r)) * 2^r
        b2 == (a[2] % 2^(24 - r)) * 2^r + (a[1] \div 2^(24 - r))
        b3 == a[3] * 2^r + (a[2] \div 2^(24 - r))
    IN  CASE k \div 24 = 0 -> <<b1, b2, b3>>
          [] k \div 24 = 1 -> <<0, b1, b2>>
          [] OTHER -> <<0, 0, b1>>

\* number of significant bits of a limb
BitLenSmall(x) == CHOOSE k \in 0..30 : x < 2^k /\ (k = 0 \/ x >= 2^(k - 1))

BitLen(a) ==
    IF a[3] # 0 THEN 48 + BitLenSmall(a[3])
    ELSE IF a[2] # 0 THEN 24 + BitLenSmall(a[2])
    ELSE BitLenSmall(a[1])

\* floor(a / 2^s)
BShr(a, s) ==
    LET k == s \div 24
        r == s % 24
        at(i) == IF i <= 3 THEN a[i] ELSE 0
        part(i) == (at(i + k) \div 2^r) + (at(i + k + 1) % 2^r) * 2^(24 - r)
    IN  <<part(1) % Limb, part(2) % Limb, part(3) % Limb>>

(***************************************************************************)
(* IEEE-754 double rounding of an exact value a: keep 53 significant bits, *)
(* round to nearest, ties to even.  At most 19 bits are dropped (a < 2^72).*)
(***************************************************************************)
RoundDouble(a) ==
    LET len == BitLen(a)
        q == len - 53
        low == a[1] % 2^q
        half == 2^(q - 1)
        lsb == (a[1] \div 2^q) % 2
        trunc == <<a[1] - low, a[2], a[3]>>
    IN  IF q <= 0 THEN a
        ELSE IF low > half \/ (low = half /\ lsb = 1)
             THEN BAdd(trunc, BSmall(2^q))
             ELSE trunc

(***************************************************************************)
(* generatePriceRange(currentPrice, rangeFactor), optionsStrategies.js     *)
(* 324-335.  The arguments are multiples of a quarter, n quarter dollars   *)
(* and m quarters (n = 400 is 100.00, m = 6 is 1.5): such values are exact *)
(* doubles, and so are minPrice = n*(8-m)/16, maxPrice = n*m/16 and        *)
(* maxPrice - minPrice.  step = (maxPrice - minPrice) / 200 is rounded to  *)
(* a double, and so is every price += step.  m <= 8 keeps minPrice >= 0.   *)
(***************************************************************************)
GridSteps == 200

\* Long division by 16 * GridSteps, one bit at a time, until the quotient q
\* has 53 bits: x = [q, r, s] is the quotient so far, the remainder and the
\* number of fraction bits produced (the quotient is q * 2^-s).
RECURSIVE Divide(_)
Divide(x) ==
    IF BitLen(x.q) >= 53 THEN x
    ELSE Divide([q |-> BAdd(BAdd(x.q, x.q),
                            BSmall((2 * x.r) \div (16 * GridSteps))),
                 r |-> (2 * x.r) % (16 * GridSteps),
                 s |-> x.s + 1])

\* The quotient rounded to the nearest double, ties to even.
RoundQuotient(x) ==
    IF 2 * x.r > 16 * GridSteps
       \/ (2 * x.r = 16 * GridSteps /\ x.q[1] % 2 = 1)
    THEN BAdd(x.q, BSmall(1))
    ELSE x.q

\* |a| / 16 / GridSteps as a double: [neg, mant, s] is (-1)^neg * mant * 2^-s.
StepDouble(neg, x) == [neg |-> neg, mant |-> RoundQuotient(x), s |-> x.s]

\* step = (maxPrice - minPrice) / 200, line 327; maxPrice - minPrice is
\* n * (2m - 8) sixteenths.
StepOf(n, m) ==
    IF n * (2 * m - 8) = 0 THEN [neg |-> FALSE, mant |-> BZero, s |-> 4]
    ELSE IF n * (2 * m - 8) < 0
    THEN StepDouble(TRUE, Divide([q |-> BSmall((n * (8 - 2 * m)) \div (16 * GridSteps)),
                                  r |-> (n * (8 - 2 * m)) % (16 * GridSteps),
                                  s |-> 0]))
    ELSE StepDouble(FALSE, Divide([q |-> BSmall((n * (2 * m - 8)) \div (16 * GridSteps)),
                                   r |-> (n * (2 * m - 8)) % (16 * GridSteps),
                                   s |-> 0]))

\* The locals of generatePriceRange before its loop (lines 325-329); the
\* prices are integers in units of 2^-s dollars.
LoopLocals(n, m, st) ==
    [s |-> st.s,
     minPrice |-> BShl(BSmall(n * (8 - m)), st.s - 4),
     maxPrice |-> BShl(BSmall(n * m), st.s - 4),
     step |-> st,
     price |-> BShl(BSmall(n * (8 - m)), st.s - 4),
     prices |-> <<>>]

LoopStart(n, m) == LoopLocals(n, m, StepOf(n, m))

\* The loop condition, line 330: price <= maxPrice.
LoopCond(l) == BLeq(l.price, l.maxPrice)

\* Math.round(price * 100) (line 331), in cents: the product is rounded to
\* a double, Math.round is floor(x + 1/2).  The division by 100 that follows
\* maps distinct cents to distinct doubles and is left implicit.
RoundedCents(price, s) ==
    BShr(BAdd(RoundDouble(BMulSmall(price, 100)), BShl(BSmall(1), s - 1)), s)[1]

\* One iteration, lines 330-331: push the rounded price, then price += step
\* (the loop only runs with step >= 0).
LoopBody(l) ==
    [l EXCEPT !.prices = Append(@, RoundedCents(l.price, l.s)),
              !.price = RoundDouble(BAdd(l.price, l.step.mant))]

\* Bound on the iterations followed of one loop run.
MaxIter == 210

\* The loop, run for at most k iterations.  The run is split in halves so
\* that the depth of evaluation is logarithmic in k.
RECURSIVE RunLoop(_, _)
RunLoop(l, k) ==
    IF k = 0 \/ ~LoopCond(l) THEN l
    ELSE IF k = 1 THEN LoopBody(l)
    ELSE RunLoop(RunLoop(l, k \div 2), k - (k \div 2))

\* The value generatePriceRange returns (line 334), for a currentPrice in
\* cents that is a multiple of 25 and arguments with which the loop ends
\* within MaxIter iterations.
generatePriceRange(cp, m) == RunLoop(LoopStart(cp \div 25, m), MaxIter).prices

(***************************************************************************)
(* The strategy catalog, OptionsStrategies.strategies (lines 10-170): the  *)
(* leg templates of each strategy.  strikeOffset is in dollars and is      *)
(* absent from the templates that do not set it.                           *)
(***************************************************************************)
T(a, t, q) == [action |-> a, type |-> t, quantity |-> q]

TO(a, t, q, o) == [action |-> a, type |-> t, quantity |-> q, strikeOffset |-> o]

strategies ==
    [k \in {"long-call", "long-put", "short-call", "short-put",
            "bull-call-spread", "bear-call-spread", "bull-put-spread",
            "bear-put-spread", "long-straddle", "short-straddle",
            "long-strangle", "short-strangle", "iron-condor", "butterfly",
            "covered-call", "protective-put"} |->
        CASE k = "long-call" -> <<T("buy", "call", 1)>>
          [] k = "long-put" -> <<T("buy", "put", 1)>>
          [] k = "short-call" -> <<T("sell", "call", 1)>>
          [] k = "short-put" -> <<T("sell", "put", 1)>>
          [] k = "bull-call-spread" ->
                <<TO("buy", "call", 1, 0), TO("sell", "call", 1, 5)>>
          [] k = "bear-call-spread" ->
                <<TO("sell", "call", 1, 0), TO("buy", "call", 1, 5)>>
          [] k = "bull-put-spread" ->
                <<TO("sell", "put", 1, 0), TO("buy", "put", 1, -5)>>
          [] k = "bear-put-spread" ->
                <<TO("buy", "put", 1, 0), TO("sell", "put", 1, -5)>>
          [] k = "long-straddle" -> <<T("buy", "call", 1), T("buy", "put", 1)>>
          [] k = "short-straddle" -> <<T("sell", "call", 1), T("sell", "put", 1)>>
          [] k = "long-strangle" ->
                <<TO("buy", "call", 1, 5), TO("buy", "put", 1, -5)>>
          [] k = "short-strangle" ->
                <<TO("sell", "call", 1, 5), TO("sell", "put", 1, -5)>>
          [] k = "iron-condor" ->
                <<TO("buy", "put", 1, -10), TO("sell", "put", 1, -5),
                  TO("sell", "call", 1, 5), TO("buy", "call", 1, 10)>>
          [] k = "butterfly" ->
                <<TO("buy", "call", 1, -5), TO("sell", "call", 2, 0),
                  TO("buy", "call", 1, 5)>>
          [] k = "covered-call" -> <<T("own", "stock", 100), T("sell", "call", 1)>>
          [] OTHER -> <<T("own", "stock", 100), T("buy", "put", 1)>>]

StrategyKeys == DOMAIN strategies

\* A strategy is held by reference: its catalog key, or Null.
Null == "null"

\* getStrategy, lines 177-179.
getStrategy(strategyKey) ==
    IF strategyKey \in StrategyKeys THEN strategyKey ELSE Null

\* strategy.legs
LegsOf(strategy) == strategies[strategy]

Max(a, b) == IF a >= b THEN a ELSE b

(***************************************************************************)
(* BlackScholes.getOptionPrice(option, stockPrice, timeToExpiry): the      *)
(* Pricer of the specification (section 4.1).  Its source is not among the *)
(* engine's files, so it is modelled from the specification.  Times are in *)
(* days (timeToExpiry = days / 365), rates and volatilities in             *)
(* ten-thousandths (0.05 is 500), prices in cents.  With timeToExpiry = 0  *)
(* the value is the intrinsic value.  With timeToExpiry > 0 it is the      *)
(* Black-Scholes-Merton value of section 4.1, rounded to the cent and      *)
(* tabulated for the arguments the model passes: <<type, stockPrice,       *)
(* strike, days, rate, volatility>>.  Arguments outside the domain of      *)
(* section 4.1 are reported as an input error: the call throws.            *)
(***************************************************************************)
\* "Domain errors" of section 4.1
PricerRejects(option, stockPrice, timeToExpiry) ==
    \/ option.volatility <= 0
    \/ timeToExpiry < 0
    \/ option.strike <= 0
    \/ stockPrice <= 0

Intrinsic(type, stockPrice, strike) ==
    IF type = "call" THEN Max(stockPrice - strike, 0)
    ELSE Max(strike - stockPrice, 0)

PricerTable ==
    <<"call", 2000, 1000, 30, 500, 2500>> :> 1004 @@
    <<"call", 2000, 1000, 30, 0, 2500>> :> 1000 @@
    <<"call", 2000, 1500, 30, 500, 2500>> :> 506 @@
    <<"call", 2000, 1500, 30, 0, 2500>> :> 500 @@
    <<"call", 2000, 2000, 30, 500, 2500>> :> 61 @@
    <<"call", 2000, 2000, 30, 0, 2500>> :> 57 @@
    <<"call", 2000, 2500, 30, 500, 2500>> :> 0 @@
    <<"call", 2000, 2500, 30, 0, 2500>> :> 0 @@
    <<"call", 2000, 3000, 30, 500, 2500>> :> 0 @@
    <<"call", 2000, 3000, 30, 0, 2500>> :> 0 @@
    <<"put", 2000, 1000, 30, 500, 2500>> :> 0 @@
    <<"put", 2000, 1000, 30, 0, 2500>> :> 0 @@
    <<"put", 2000, 1500, 30, 500, 2500>> :> 0 @@
    <<"put", 2000, 1500, 30, 0, 2500>> :> 0 @@
    <<"put", 2000, 2000, 30, 500, 2500>> :> 53 @@
    <<"put", 2000, 2000, 30, 0, 2500>> :> 57 @@
    <<"put", 2000, 2500, 30, 500, 2500>> :> 490 @@
    <<"put", 2000, 2500, 30, 0, 2500>> :> 500 @@
    <<"put", 2000, 3000, 30, 500, 2500>> :> 988 @@
    <<"put", 2000, 3000, 30, 0, 2500>> :> 1000 @@
    <<"call", 10000, 9000, 30, 0, 2500>> :> 1021 @@
    <<"call", 10000, 9500, 30, 0, 2500>> :> 597 @@
    <<"call", 10000, 10000, 30, 0, 2500>> :> 286 @@
    <<"call", 10000, 10500, 30, 0, 2500>> :> 108 @@
    <<"call", 10000, 11000, 30, 0, 2500>> :> 32 @@
    <<"call", 10050, 9100, 30, 500, 2500>> :> 1010 @@
    <<"call", 10050, 9100, 30, 0, 2500>> :> 976 @@
    <<"call", 10050, 9600, 30, 500, 2500>> :> 590 @@
    <<"call", 10050, 9600, 30, 0, 2500>> :> 561 @@
    <<"call", 10050, 10100, 30, 500, 2500>> :> 283 @@
    <<"call", 10050, 10100, 30, 0, 2500>> :> 264 @@
    <<"call", 10050, 10600, 30, 500, 2500>> :> 108 @@
    <<"call", 10050, 10600, 30, 0, 2500>> :> 98 @@
    <<"call", 10050, 11100, 30, 500, 2500>> :> 32 @@
    <<"call", 10050, 11100, 30, 0, 2500>> :> 29 @@
    <<"put", 10000, 9000, 30, 0, 2500>> :> 21 @@
    <<"put", 10000, 9500, 30, 0, 2500>> :> 97 @@
    <<"put", 10000, 10000, 30, 0, 2500>> :> 286 @@
    <<"put", 10000, 10500, 30, 0, 2500>> :> 608 @@
    <<"put", 10000, 11000, 30, 0, 2500>> :> 1032 @@
    <<"put", 10050, 9100, 30, 500, 2500>> :> 23 @@
    <<"put", 10050, 9100, 30, 0, 2500>> :> 26 @@
    <<"put", 10050, 9600, 30, 500, 2500>> :> 101 @@
    <<"put", 10050, 9600, 30, 0, 2500>> :> 111 @@
    <<"put", 10050, 10100, 30, 500, 2500>> :> 292 @@
    <<"put", 10050, 10100, 30, 0, 2500>> :> 314 @@
    <<"put", 10050, 10600, 30, 500, 2500>> :> 614 @@
    <<"put", 10050, 10600, 30, 0, 2500>> :> 648 @@
    <<"put", 10050, 11100, 30, 500, 2500>> :> 1037 @@
    <<"put", 10050, 11100, 30, 0, 2500>> :> 1079 @@
    <<"call", 9000, 9000, 30, 500, 2500>> :> 276 @@
    <<"call", 9000, 9500, 30, 500, 2500>> :> 95 @@
    <<"call", 9000, 10000, 30, 500, 2500>> :> 24 @@
    <<"call", 9000, 10500, 30, 500, 2500>> :> 5 @@
    <<"call", 9000, 11000, 30, 500, 2500>> :> 1 @@
    <<"call", 10000, 9000, 30, 500, 2500>> :> 1056 @@
    <<"call", 10000, 9500, 30, 500, 2500>> :> 627 @@
    <<"call", 10000, 10000, 30, 500, 2500>> :> 306 @@
    <<"call", 10000, 10500, 30, 500, 2500>> :> 119 @@
    <<"call", 10000, 11000, 30, 500, 2500>> :> 36 @@
    <<"call", 10550, 9000, 30, 500, 2500>> :> 1590 @@
    <<"call", 10550, 9500, 30, 500, 2500>> :> 1109 @@
    <<"call", 10550, 10000, 30, 500, 2500>> :> 679 @@
    <<"call", 10550, 10500, 30, 500, 2500>> :> 349 @@
    <<"call", 10550, 11000, 30, 500, 2500>> :> 146 @@
    <<"call", 11000, 9000, 30, 500, 2500>> :> 2037 @@
    <<"call", 11000, 9500, 30, 500, 2500>> :> 1544 @@
    <<"call", 11000, 10000, 30, 500, 2500>> :> 1069 @@
    <<"call", 11000, 10500, 30, 500, 2500>> :> 652 @@
    <<"call", 11000, 11000, 30, 500, 2500>> :> 337 @@
    <<"put", 9000, 9000, 30, 500, 2500>> :> 239 @@
    <<"put", 9000, 9500, 30, 500, 2500>> :> 556 @@
    <<"put", 9000, 10000, 30, 500, 2500>> :> 983 @@
    <<"put", 9000, 10500, 30, 500, 2500>> :> 1462 @@
    <<"put", 9000, 11000, 30, 500, 2500>> :> 1956 @@
    <<"put", 10000, 9000, 30, 500, 2500>> :> 19 @@
    <<"put", 10000, 9500, 30, 500, 2500>> :> 88 @@
    <<"put", 10000, 10000, 30, 500, 2500>> :> 265 @@
    <<"put", 10000, 10500, 30, 500, 2500>> :> 576 @@
    <<"put", 10000, 11000, 30, 500, 2500>> :> 991 @@
    <<"put", 10550, 9000, 30, 500, 2500>> :> 3 @@
    <<"put", 10550, 9500, 30, 500, 2500>> :> 20 @@
    <<"put", 10550, 10000, 30, 500, 2500>> :> 88 @@
    <<"put", 10550, 10500, 30, 500, 2500>> :> 256 @@
    <<"put", 10550, 11000, 30, 500, 2500>> :> 551 @@
    <<"put", 11000, 9000, 30, 500, 2500>> :> 0 @@
    <<"put", 11000, 9500, 30, 500, 2500>> :> 5 @@
    <<"put", 11000, 10000, 30, 500, 2500>> :> 28 @@
    <<"put", 11000, 10500, 30, 500, 2500>> :> 109 @@
    <<"put", 11000, 11000, 30, 500, 2500>> :> 292

getOptionPrice(option, stockPrice, timeToExpiry) ==
    IF timeToExpiry = 0
    THEN Intrinsic(option.type, stockPrice, option.strike)
    ELSE PricerTable[<<option.type, stockPrice, option.strike, timeToExpiry,
                       option.riskFreeRate, option.volatility>>]

(***************************************************************************)
(* calculateProfitLoss, lines 189-236.  A field a leg object lacks is      *)
(* absent from its record.                                                 *)
(***************************************************************************)
\* leg.riskFreeRate || 0.05 and leg.volatility || 0.25, lines 220-221
OrDefault(leg, field, default) ==
    IF field \in DOMAIN leg /\ leg[field] # 0 THEN leg[field] ELSE default

\* The option handed to the Pricer, lines 216-222.
PricerOption(strategyLeg, leg, timeToExpiry) ==
    [type |-> strategyLeg.type,
     strike |-> leg.strike,
     timeToExpiry |-> timeToExpiry,
     riskFreeRate |-> OrDefault(leg, "riskFreeRate", 500),
     volatility |-> OrDefault(leg, "volatility", 2500)]

\* optionValue, lines 205-223
OptionValue(strategyLeg, leg, stockPrice, timeToExpiry) ==
    IF timeToExpiry = 0
    THEN IF strategyLeg.type = "call"
         THEN Max(stockPrice - leg.strike, 0)
         ELSE Max(leg.strike - stockPrice, 0)
    ELSE getOptionPrice(PricerOption(strategyLeg, leg, timeToExpiry),
                        stockPrice, timeToExpiry)

\* LegPL with the contract multiplier of a sold option left out.
LegPL_NoMultiplier(strategyLeg, leg, stockPrice, timeToExpiry) ==
    IF strategyLeg.type = "stock"
    THEN IF strategyLeg.action = "own"
         THEN (stockPrice - leg.costBasis) * strategyLeg.quantity
         ELSE 0
    ELSE IF strategyLeg.action = "buy"
         THEN (OptionValue(strategyLeg, leg, stockPrice, timeToExpiry)
                 - leg.premium) * strategyLeg.quantity * 100
         ELSE IF strategyLeg.action = "sell"
         THEN (leg.premium
                 - OptionValue(strategyLeg, leg, stockPrice, timeToExpiry))
                 * strategyLeg.quantity
         ELSE 0

\* legPL of one iteration of the forEach, lines 196-230
LegPL(strategyLeg, leg, stockPrice, timeToExpiry) ==
    IF strategyLeg.type = "stock"
    THEN IF strategyLeg.action = "own"
         THEN (stockPrice - leg.costBasis) * strategyLeg.quantity
         ELSE 0
    ELSE IF strategyLeg.action = "buy"
         THEN (OptionValue(strategyLeg, leg, stockPrice, timeToExpiry)
                 - leg.premium) * strategyLeg.quantity * 100
         ELSE IF strategyLeg.action = "sell"
         THEN (leg.premium
                 - OptionValue(strategyLeg, leg, stockPrice, timeToExpiry))
                 * strategyLeg.quantity * 100
         ELSE 0

\* legs.forEach from index i on (i counts from 1), totalPL so far; a leg
\* with no template is skipped (line 194).
RECURSIVE ForEachLegPL(_, _, _, _, _, _)
ForEachLegPL(strategy, legs, stockPrice, timeToExpiry, i, totalPL) ==
    IF i > Len(legs) THEN totalPL
    ELSE IF i > Len(LegsOf(strategy))
    THEN ForEachLegPL(strategy, legs, stockPrice, timeToExpiry, i + 1, totalPL)
    ELSE ForEachLegPL(strategy, legs, stockPrice, timeToExpiry, i + 1,
                      totalPL + LegPL(LegsOf(strategy)[i], legs[i],
                                      stockPrice, timeToExpiry))

calculateProfitLoss(strategy, legs, stockPrice, timeToExpiry) ==
    ForEachLegPL(strategy, legs, stockPrice, timeToExpiry, 1, 0)

\* One call of BlackScholes.getOptionPrice: its three arguments.
PricerCall(option, stockPrice, timeToExpiry) ==
    [option |-> option, stockPrice |-> stockPrice, timeToExpiry |-> timeToExpiry]

\* The calls of the Pricer that calculateProfitLoss makes from leg i on, in
\* order: one per option leg with a template when timeToExpiry is not 0
\* (lines 207, 216-222), none otherwise.
RECURSIVE PricerCallsFrom(_, _, _, _, _)
PricerCallsFrom(strategy, legs, stockPrice, timeToExpiry, i) ==
    IF i > Len(legs) THEN <<>>
    ELSE (IF /\ i <= Len(LegsOf(strategy))
             /\ LegsOf(strategy)[i].type # "stock"
             /\ timeToExpiry # 0
          THEN <<PricerCall(PricerOption(LegsOf(strategy)[i], legs[i], timeToExpiry),
                            stockPrice, timeToExpiry)>>
          ELSE <<>>)
         \o PricerCallsFrom(strategy, legs, stockPrice, timeToExpiry, i + 1)

PricerCalls(strategy, legs, stockPrice, timeToExpiry) ==
    PricerCallsFrom(strategy, legs, stockPrice, timeToExpiry, 1)

\* stockPrices.map(...) over the indices lo..hi; the range is split in
\* halves to keep the evaluation shallow.
RECURSIVE MapProfitLoss(_, _, _, _, _, _)
MapProfitLoss(strategy, legs, stockPrices, timeToExpiry, lo, hi) ==
    IF lo > hi THEN <<>>
    ELSE IF lo = hi
    THEN <<calculateProfitLoss(strategy, legs, stockPrices[lo], timeToExpiry)>>
    ELSE MapProfitLoss(strategy, legs, stockPrices, timeToExpiry,
                       lo, (lo + hi) \div 2)
         \o MapProfitLoss(strategy, legs, stockPrices, timeToExpiry,
                          (lo + hi) \div 2 + 1, hi)

\* calculateProfitLossArray, lines 246-248
calculateProfitLossArray(strategy, legs, stockPrices, timeToExpiry) ==
    MapProfitLoss(strategy, legs, stockPrices, timeToExpiry, 1, Len(stockPrices))

(***************************************************************************)
(* Numbers that may be infinite (Math.max, Infinity, -Infinity), and the   *)
(* interpolated prices of findBreakevens, which are not whole cents:       *)
(* [lo, num, den] is lo + num / den cents, NaN when den = 0 (0 / 0).       *)
(***************************************************************************)
Finite(v) == [inf |-> 0, v |-> v]

Infinity == [inf |-> 1, v |-> 0]

NegInfinity == [inf |-> -1, v |-> 0]

Abs(x) == IF x < 0 THEN -x ELSE x

\* Math.max and Math.min over xs[lo..hi], lo <= hi
RECURSIVE MaxOver(_, _, _)
MaxOver(xs, lo, hi) ==
    IF lo = hi THEN xs[lo]
    ELSE Max(MaxOver(xs, lo, (lo + hi) \div 2),
             MaxOver(xs, (lo + hi) \div 2 + 1, hi))

Min(a, b) == IF a <= b THEN a ELSE b

RECURSIVE MinOver(_, _, _)
MinOver(xs, lo, hi) ==
    IF lo = hi THEN xs[lo]
    ELSE Min(MinOver(xs, lo, (lo + hi) \div 2),
             MinOver(xs, (lo + hi) \div 2 + 1, hi))

\* Math.max(...xs) and Math.min(...xs) of a non-empty array
MathMax(xs) == MaxOver(xs, 1, Len(xs))

MathMin(xs) == MinOver(xs, 1, Len(xs))

\* rangeFactor = 1.5, the default of generatePriceRange (line 324), in quarters
DefaultRangeFactor == 6

\* rangeFactor 2 of calculateMaxProfit and calculateMaxLoss (282, 304)
WideRangeFactor == 8

(***************************************************************************)
(* findBreakevens, lines 257-272.                                          *)
(***************************************************************************)
\* the test of line 263, at index i (from 2) of the profits
Crossing(profits, i) ==
    \/ (profits[i - 1] <= 0 /\ profits[i] >= 0)
    \/ (profits[i - 1] >= 0 /\ profits[i] <= 0)

\* lines 265-266: priceRange[i-1] + ratio * (priceRange[i] - priceRange[i-1])
\* with ratio = |profits[i-1]| / (|profits[i-1]| + |profits[i]|)
Interpolate(priceRange, profits, i) ==
    [lo |-> priceRange[i - 1],
     num |-> Abs(profits[i - 1]) * (priceRange[i] - priceRange[i - 1]),
     den |-> Abs(profits[i - 1]) + Abs(profits[i])]

\* The for loop of lines 262-269 over the indices lo..hi, in index order;
\* the range is split in halves to keep the evaluation shallow.
RECURSIVE ScanBreakevens(_, _, _, _)
ScanBreakevens(priceRange, profits, lo, hi) ==
    IF lo > hi THEN <<>>
    ELSE IF lo = hi
    THEN IF Crossing(profits, lo)
         THEN <<Interpolate(priceRange, profits, lo)>>
         ELSE <<>>
    ELSE ScanBreakevens(priceRange, profits, lo, (lo + hi) \div 2)
         \o ScanBreakevens(priceRange, profits, (lo + hi) \div 2 + 1, hi)

BreakevensOn(strategy, legs, priceRange) ==
    ScanBreakevens(priceRange,
                   calculateProfitLossArray(strategy, legs, priceRange, 0),
                   2, Len(priceRange))

findBreakevens(strategy, legs, cp) ==
    BreakevensOn(strategy, legs, generatePriceRange(cp, DefaultRangeFactor))

(***************************************************************************)
(* calculateMaxProfit, lines 281-294, and calculateMaxLoss, lines 303-316, *)
(* on a grid of at least two prices.                                       *)
(***************************************************************************)
\* MaxProfitOf without the edge heuristic: always the largest sample.
MaxProfitOf_NoEdgeTest(profits) == Finite(MathMax(profits))

MaxProfitOf(profits) ==
    IF profits[Len(profits)] > profits[Len(profits) - 1]
       /\ profits[Len(profits)] = MathMax(profits)
    THEN Infinity
    ELSE Finite(MathMax(profits))

calculateMaxProfit(strategy, legs, cp) ==
    MaxProfitOf(calculateProfitLossArray(
        strategy, legs, generatePriceRange(cp, WideRangeFactor), 0))

\* MaxLossOf with the test of the left edge left out.
MaxLossOf_RightEdgeOnly(profits) ==
    IF profits[Len(profits)] < profits[Len(profits) - 1]
       /\ profits[Len(profits)] = MathMin(profits)
    THEN NegInfinity
    ELSE Finite(MathMin(profits))

MaxLossOf(profits) ==
    IF \/ (profits[1] < profits[2] /\ profits[1] = MathMin(profits))
       \/ (profits[Len(profits)] < profits[Len(profits) - 1]
           /\ profits[Len(profits)] = MathMin(profits))
    THEN NegInfinity
    ELSE Finite(MathMin(profits))

calculateMaxLoss(strategy, legs, cp) ==
    MaxLossOf(calculateProfitLossArray(
        strategy, legs, generatePriceRange(cp, WideRangeFactor), 0))

(***************************************************************************)
(* calculateNetPremium, lines 343-358.                                     *)
(***************************************************************************)
\* NetLegPremium with the premium of a sold leg added instead of subtracted.
NetLegPremium_SellAdded(strategyLeg, leg) ==
    IF strategyLeg.type = "stock" THEN 0
    ELSE IF strategyLeg.action \in {"buy", "sell"}
    THEN leg.premium * strategyLeg.quantity * 100
    ELSE 0

\* what one iteration of the forEach adds to netPremium, lines 347-354
NetLegPremium(strategyLeg, leg) ==
    IF strategyLeg.type = "stock" THEN 0
    ELSE IF strategyLeg.action = "buy"
    THEN leg.premium * strategyLeg.quantity * 100
    ELSE IF strategyLeg.action = "sell"
    THEN 0 - leg.premium * strategyLeg.quantity * 100
    ELSE 0

RECURSIVE ForEachLegPremium(_, _, _, _)
ForEachLegPremium(strategy, legs, i, netPremium) ==
    IF i > Len(legs) THEN netPremium
    ELSE IF i > Len(LegsOf(strategy))
    THEN ForEachLegPremium(strategy, legs, i + 1, netPremium)
    ELSE ForEachLegPremium(strategy, legs, i + 1,
                           netPremium + NetLegPremium(LegsOf(strategy)[i], legs[i]))

calculateNetPremium(strategy, legs) == ForEachLegPremium(strategy, legs, 1, 0)

(***************************************************************************)
(* generateDefaultLegs, lines 367-406.  marketParams holds volatility and  *)
(* riskFreeRate in percent; a leg holds them as decimals, kept here in     *)
(* ten-thousandths, so that 2500 on a leg stands for 0.25.                 *)
(***************************************************************************)
\* OffsetOf that ignores the template's strikeOffset.
OffsetOf_Ignored(t) == IF "strikeOffset" \in DOMAIN t THEN 0 * t.strikeOffset ELSE 0

\* strikeOffset || 0, in cents
OffsetOf(t) == IF "strikeOffset" \in DOMAIN t THEN 100 * t.strikeOffset ELSE 0

\* Math.round of an amount of x cents taken in dollars, line 388: the
\* nearest whole dollar, halves upward; the result is in cents.
MathRound(x) == ((x + 50) \div 100) * 100

\* marketParams.riskFreeRate / 100 and marketParams.volatility / 100, lines
\* 379-380: a percentage p becomes the decimal p / 100, that is 100 * p
\* ten-thousandths.
PercentToDecimal(percent) == percent * 100

\* the option handed to the Pricer, lines 391-396
DefaultLegOption(strategyLeg, strike, marketParams) ==
    [type |-> strategyLeg.type,
     strike |-> strike,
     timeToExpiry |-> marketParams.daysToExpiration,
     riskFreeRate |-> PercentToDecimal(marketParams.riskFreeRate),
     volatility |-> PercentToDecimal(marketParams.volatility)]

\* The leg pushed for one template, lines 375-402.  The premium is the
\* Pricer's value rounded to the cent (line 399).
DefaultLeg(strategyLeg, cp, marketParams) ==
    IF strategyLeg.type = "stock"
    THEN [action |-> strategyLeg.action, type |-> strategyLeg.type,
          quantity |-> strategyLeg.quantity,
          riskFreeRate |-> PercentToDecimal(marketParams.riskFreeRate),
          volatility |-> PercentToDecimal(marketParams.volatility),
          costBasis |-> cp]
    ELSE [action |-> strategyLeg.action, type |-> strategyLeg.type,
          quantity |-> strategyLeg.quantity,
          riskFreeRate |-> PercentToDecimal(marketParams.riskFreeRate),
          volatility |-> PercentToDecimal(marketParams.volatility),
          strike |-> MathRound(cp + OffsetOf(strategyLeg)),
          premium |-> getOptionPrice(
                          DefaultLegOption(strategyLeg,
                                           MathRound(cp + OffsetOf(strategyLeg)),
                                           marketParams),
                          cp, marketParams.daysToExpiration)]

generateDefaultLegs(strategyKey, cp, marketParams) ==
    IF getStrategy(strategyKey) = Null THEN <<>>
    ELSE [i \in 1 .. Len(LegsOf(getStrategy(strategyKey))) |->
             DefaultLeg(LegsOf(getStrategy(strategyKey))[i], cp, marketParams)]

\* the calls of the Pricer that generateDefaultLegs makes, in order
RECURSIVE DefaultLegCallsFrom(_, _, _, _)
DefaultLegCallsFrom(strategy, cp, marketParams, i) ==
    IF i > Len(LegsOf(strategy)) THEN <<>>
    ELSE (IF LegsOf(strategy)[i].type = "stock" THEN <<>>
          ELSE <<PricerCall(DefaultLegOption(LegsOf(strategy)[i],
                                MathRound(cp + OffsetOf(LegsOf(strategy)[i])),
                                marketParams),
                            cp, marketParams.daysToExpiration)>>)
         \o DefaultLegCallsFrom(strategy, cp, marketParams, i + 1)

DefaultLegCalls(strategyKey, cp, marketParams) ==
    IF getStrategy(strategyKey) = Null THEN <<>>
    ELSE DefaultLegCallsFrom(getStrategy(strategyKey), cp, marketParams, 1)

(***************************************************************************)
(* validateStrategy, lines 414-441.  An error message is <<"strategy">>,   *)
(* <<"legs">>, <<"strike", index + 1>> or <<"premium", index + 1>>.        *)
(***************************************************************************)
\* !leg[field]: the field is absent or 0
Falsy(leg, field) == field \notin DOMAIN leg \/ leg[field] = 0

\* lines 431 and 434
BadStrike(leg) == Falsy(leg, "strike") \/ leg.strike <= 0

BadPremium(leg) == Falsy(leg, "premium") \/ leg.premium < 0

\* the errors one iteration of the forEach pushes, lines 427-437
LegErrors(strategy, legs, i) ==
    IF i > Len(LegsOf(strategy)) THEN <<>>
    ELSE IF LegsOf(strategy)[i].type = "stock" THEN <<>>
    ELSE (IF BadStrike(legs[i]) THEN <<<<"strike", i>>>> ELSE <<>>)
         \o (IF BadPremium(legs[i]) THEN <<<<"premium", i>>>> ELSE <<>>)

RECURSIVE ForEachLegErrors(_, _, _, _)
ForEachLegErrors(strategy, legs, i, errors) ==
    IF i > Len(legs) THEN errors
    ELSE ForEachLegErrors(strategy, legs, i + 1,
                          errors \o LegErrors(strategy, legs, i))

validateStrategy(strategy, legs) ==
    IF strategy = Null
    THEN [isValid |-> FALSE, errors |-> <<<<"strategy">>>>]
    ELSE LET errors == ForEachLegErrors(strategy, legs, 1,
                          IF Len(legs) # Len(LegsOf(strategy))
                          THEN <<<<"legs">>>> ELSE <<>>)
         IN  [isValid |-> Len(errors) = 0, errors |-> errors]

(***************************************************************************)
(* The values generatePriceRange returns for the prices and range factors  *)
(* the engine calls below pass, computed once.                             *)
(***************************************************************************)
EnginePrices == {800, 10000}

PriceRangeTable ==
    [cp \in EnginePrices, m \in {DefaultRangeFactor, WideRangeFactor} |->
        generatePriceRange(cp, m)]

(***************************************************************************)
(* Inputs of the engine calls.  Leg instances have the fields that         *)
(* generateDefaultLegs gives them (lines 375-400).                         *)
(***************************************************************************)
Premiums == {0, 300, 500}

StockPrices == {0, 9000, 10000, 10550, 11000}

ExpiryDays == 30

OptionLeg(t, strike, premium) ==
    [action |-> t.action, type |-> t.type, quantity |-> t.quantity,
     riskFreeRate |-> 500, volatility |-> 2500,
     strike |-> strike, premium |-> premium]

StockLeg(t, costBasis) ==
    [action |-> t.action, type |-> t.type, quantity |-> t.quantity,
     riskFreeRate |-> 500, volatility |-> 2500, costBasis |-> costBasis]

\* The instances of template t at a whole-dollar price cp: the default
\* strike or cost basis, any premium of Premiums.
InstancesOf(t, cp) ==
    IF t.type = "stock" THEN {StockLeg(t, cp)}
    ELSE {OptionLeg(t, cp + OffsetOf(t), p) : p \in Premiums}

RECURSIVE LegSetsUpTo(_, _, _)
LegSetsUpTo(strategy, cp, k) ==
    IF k = 0 THEN {<<>>}
    ELSE {Append(legs, x) : legs \in LegSetsUpTo(strategy, cp, k - 1),
                            x \in InstancesOf(LegsOf(strategy)[k], cp)}

LegSets(strategy, cp) == LegSetsUpTo(strategy, cp, Len(LegsOf(strategy)))

\* A negative premium, as typed into a premium input.
NegativePremium == 0 - 100

\* the indices of the option templates of a strategy
OptionIndices(strategy) ==
    {i \in 1 .. Len(LegsOf(strategy)) : LegsOf(strategy)[i].type # "stock"}

\* Leg sets that validateStrategy rejects: one option leg of a default leg
\* set carries a negative premium.
InvalidLegSets(strategy, cp) ==
    {[legs EXCEPT ![i].premium = NegativePremium] :
        legs \in {l \in LegSets(strategy, cp) :
                     \A j \in OptionIndices(strategy) : l[j].premium = 300},
        i \in OptionIndices(strategy)}

\* Inputs of generateDefaultLegs: a key that is not in the catalog, prices
\* of 20.00, 100.00 and 100.50, the market parameters of the constructor with a
\* risk-free rate of 5 or 0 percent.
UnknownKey == "no-such-strategy"

DefaultLegPrices == {2000, 10000, 10050}

MarketParams ==
    {[currentPrice |-> cp, volatility |-> 25, riskFreeRate |-> r,
      daysToExpiration |-> ExpiryDays] : cp \in DefaultLegPrices, r \in {0, 5}}

\* Leg sets as generateDefaultLegs returns them at the price of 100, with
\* the Pricer's premiums and a stored risk-free rate of 5 or 0 percent.
GeneratedLegSets(strategy, cp) ==
    IF cp # 10000 THEN {}
    ELSE {generateDefaultLegs(strategy, cp, mp) :
             mp \in {x \in MarketParams : x.currentPrice = cp}}

\* A long call at the price of 8 whose strike has been edited to 15.95, just
\* below the upper end 16 of the grid of rangeFactor 2.
EdgeStrikeLegSets(strategy, cp) ==
    IF strategy = "long-call" /\ cp = 800
    THEN {<<OptionLeg(LegsOf(strategy)[1], 2 * cp - 5, 100)>>}
    ELSE {}

\* The leg sets the engine's entry points are called with.
EngineLegSets(strategy, cp) ==
    LegSets(strategy, cp) \cup InvalidLegSets(strategy, cp)
        \cup GeneratedLegSets(strategy, cp) \cup EdgeStrikeLegSets(strategy, cp)

\* Inputs of validateStrategy: legs of any shape and number.
MaxExtraLegs == 1

ValidatedKeys == {"long-call", "long-straddle", "covered-call"}

AnyLegs ==
    {[strike |-> k, premium |-> p] : k \in {-500, 0, 10000}, p \in {-100, 0, 500}}
    \cup {[costBasis |-> 10000]}

RECURSIVE AnyLegSeqs(_)
AnyLegSeqs(k) ==
    IF k = 0 THEN {<<>>}
    ELSE AnyLegSeqs(k - 1)
         \cup {Append(legs, x) : legs \in {l \in AnyLegSeqs(k - 1) : Len(l) = k - 1},
                                 x \in AnyLegs}

(***************************************************************************)
(* The state of the application, OptionsCalculatorApp                      *)
(* (src/unnamed/part_000), and of the document it works on.                *)
(***************************************************************************)
\* The text of an input element: a number, or nothing that parses as one.
Text(n) == [kind |-> "number", value |-> n]

Blank == [kind |-> "blank", value |-> 0]

\* parseFloat(text) || 0, lines 45, 310, 317 and 320
ParseFloatOrZero(text) == IF text.kind = "number" THEN text.value ELSE 0

\* The value of the strategy select when none of the strategies is selected.
NoSelection == "none-selected"

\* updateTimeout before debouncedUpdate has set it (undefined): no timer
\* has this id.
NoTimer == 0

\* constructor, lines 7-19
NewApp ==
    [currentStrategy |-> Null,
     currentLegs |-> <<>>,
     marketParams |-> [currentPrice |-> 10000, volatility |-> 25,
                       riskFreeRate |-> 5, daysToExpiration |-> ExpiryDays],
     updateTimeout |-> NoTimer]

\* What the metrics cards, the chart and the strategy table hold before the
\* application has written them.
InitialContent == [content |-> "initial"]

InitialView ==
    [strategySelect |-> NoSelection,
     optionsLegs |-> <<>>,
     metrics |-> InitialContent,
     chart |-> InitialContent,
     strategyTable |-> InitialContent]

\* No run of updateCalculations yet.
NoRun ==
    [outcome |-> "none", valid |-> FALSE, calls |-> <<>>, wrote |-> {}]

(***************************************************************************)
(* State machine.  The engine keeps no state of its own: a call is one     *)
(* step that records the entry point, its arguments and what it returns.   *)
(***************************************************************************)
Init ==
    /\ pc = "idle"
    /\ currentPrice = 0
    /\ rangeFactor = DefaultRangeFactor
    /\ loop = LoopStart(0, DefaultRangeFactor)
    /\ op = "none"
    /\ args = <<>>
    /\ ret = <<>>
    /\ calls = <<>>
    /\ page = "loading"
    /\ app = NewApp
    /\ timers = {}
    /\ view = InitialView
    /\ catalog = strategies
    /\ aliases = {}
    /\ lastRun = NoRun

\* entry point name called with arguments a: it returns r, having called the
\* Pricer with each of c
CalledWith(name, a, r, c) ==
    /\ op' = name
    /\ args' = a
    /\ ret' = r
    /\ calls' = c
    /\ UNCHANGED <<pc, currentPrice, rangeFactor, loop>>
    /\ UNCHANGED appVars

\* an entry point that does not reach the Pricer
Called(name, a, r) == CalledWith(name, a, r, <<>>)

CallCalculateProfitLoss ==
    /\ op = "none"
    /\ \E strategy \in StrategyKeys, cp \in EnginePrices,
          stockPrice \in StockPrices, timeToExpiry \in {0, ExpiryDays} :
           \E legs \in EngineLegSets(strategy, cp) :
               /\ timeToExpiry # 0 => (cp = 10000 /\ stockPrice # 0)
               /\ CalledWith("calculateProfitLoss",
                             [strategy |-> strategy, legs |-> legs,
                              stockPrice |-> stockPrice, timeToExpiry |-> timeToExpiry],
                             calculateProfitLoss(strategy, legs, stockPrice, timeToExpiry),
                             PricerCalls(strategy, legs, stockPrice, timeToExpiry))

CallFindBreakevens ==
    /\ op = "none"
    /\ \E strategy \in StrategyKeys, cp \in EnginePrices :
           \E legs \in EngineLegSets(strategy, cp) :
               Called("findBreakevens",
                      [strategy |-> strategy, legs |-> legs, currentPrice |-> cp],
                      BreakevensOn(strategy, legs, PriceRangeTable[cp, DefaultRangeFactor]))

CallCalculateMaxProfit ==
    /\ op = "none"
    /\ \E strategy \in StrategyKeys, cp \in EnginePrices :
           \E legs \in EngineLegSets(strategy, cp) :
               Called("calculateMaxProfit",
                      [strategy |-> strategy, legs |-> legs, currentPrice |-> cp],
                      MaxProfitOf(calculateProfitLossArray(
                          strategy, legs, PriceRangeTable[cp, WideRangeFactor], 0)))

CallCalculateMaxLoss ==
    /\ op = "none"
    /\ \E strategy \in StrategyKeys, cp \in EnginePrices :
           \E legs \in EngineLegSets(strategy, cp) :
               Called("calculateMaxLoss",
                      [strategy |-> strategy, legs |-> legs, currentPrice |-> cp],
                      MaxLossOf(calculateProfitLossArray(
                          strategy, legs, PriceRangeTable[cp, WideRangeFactor], 0)))

CallValidateStrategy ==
    /\ op = "none"
    /\ \E strategy \in ValidatedKeys \cup {Null} :
           \E legs \in AnyLegSeqs(IF strategy = Null THEN 1
                                  ELSE Len(LegsOf(strategy)) + MaxExtraLegs) :
               Called("validateStrategy",
                      [strategy |-> strategy, legs |-> legs],
                      validateStrategy(strategy, legs))

CallCalculateNetPremium ==
    /\ op = "none"
    /\ \E strategy \in StrategyKeys, cp \in EnginePrices :
           \E legs \in EngineLegSets(strategy, cp) :
               Called("calculateNetPremium",
                      [strategy |-> strategy, legs |-> legs],
                      calculateNetPremium(strategy, legs))

CallGenerateDefaultLegs ==
    /\ op = "none"
    /\ \E strategyKey \in StrategyKeys \cup {UnknownKey},
          cp \in DefaultLegPrices, marketParams \in MarketParams :
           CalledWith("generateDefaultLegs",
                      [strategyKey |-> strategyKey, currentPrice |-> cp,
                       marketParams |-> marketParams],
                      generateDefaultLegs(strategyKey, cp, marketParams),
                      DefaultLegCalls(strategyKey, cp, marketParams))

\* The caller takes the result; the engine is ready for the next call.
Return ==
    /\ op # "none"
    /\ pc = "idle"
    /\ op' = "none"
    /\ args' = <<>>
    /\ ret' = <<>>
    /\ calls' = <<>>
    /\ UNCHANGED <<pc, currentPrice, rangeFactor, loop>>
    /\ UNCHANGED appVars

Next ==
    \/ Return
    \/ CallCalculateProfitLoss
    \/ CallFindBreakevens
    \/ CallCalculateMaxProfit
    \/ CallCalculateMaxLoss
    \/ CallValidateStrategy
    \/ CallCalculateNetPremium
    \/ CallGenerateDefaultLegs

Spec == Init /\ [][Next]_vars

(***************************************************************************)
(* generatePriceRange step by step: one step per iteration of its loop     *)
(* (lines 330-332).  A run is followed for at most MaxIter iterations.     *)
(***************************************************************************)
GridPrices == {0, 25, 50, 100, 300, 700, 800, 10000}

GridFactors == {2, 4, 5, 6, 8}

\* lines 325-329
GridCall ==
    /\ pc = "idle"
    /\ \E cp \in GridPrices, m \in GridFactors :
           /\ currentPrice' = cp
           /\ rangeFactor' = m
           /\ loop' = LoopStart(cp \div 25, m)
    /\ pc' = "loop"
    /\ op' = "generatePriceRange"
    /\ UNCHANGED <<args, ret, calls>>
    /\ UNCHANGED appVars

\* lines 330-331, one iteration
GridStep ==
    /\ pc = "loop"
    /\ LoopCond(loop)
    /\ Len(loop.prices) < MaxIter
    /\ loop' = LoopBody(loop)
    /\ UNCHANGED <<pc, currentPrice, rangeFactor, op, args, ret, calls>>
    /\ UNCHANGED appVars

\* line 334: the loop has ended, return prices
GridReturn ==
    /\ pc = "loop"
    /\ ~LoopCond(loop)
    /\ pc' = "done"
    /\ ret' = [kind |-> "prices", prices |-> loop.prices]
    /\ UNCHANGED <<currentPrice, rangeFactor, loop, op, args, calls>>
    /\ UNCHANGED appVars

\* the caller takes the grid
GridDone ==
    /\ pc = "done"
    /\ pc' = "idle"
    /\ op' = "none"
    /\ ret' = <<>>
    /\ UNCHANGED <<currentPrice, rangeFactor, loop, args, calls>>
    /\ UNCHANGED appVars

GridNext == GridCall \/ GridStep \/ GridReturn \/ GridDone

SpecGrid == Init /\ [][GridNext]_vars

(***************************************************************************)
(* The application, OptionsCalculatorApp (src/unnamed/part_000).  A        *)
(* handler runs to its end in one step.  The document has the elements the *)
(* application looks up: the strategy select, the market inputs, the leg   *)
(* container, the metrics cards, the chart canvas and the strategy table.  *)
(***************************************************************************)
\* The strategies the select offers here, and the values it can have.
AppKeys == {"long-call", "covered-call"}

SelectValues == AppKeys \cup {NoSelection}

\* The application and the document as one value, with threw telling
\* whether the handler running has thrown.
Now ==
    [page |-> page, app |-> app, timers |-> timers, view |-> view,
     catalog |-> catalog,
     aliases |-> aliases, lastRun |-> lastRun, threw |-> FALSE]

Becomes(w) ==
    /\ page' = w.page
    /\ app' = w.app
    /\ timers' = w.timers
    /\ view' = w.view
    /\ catalog' = w.catalog
    /\ aliases' = w.aliases
    /\ lastRun' = w.lastRun
    /\ UNCHANGED engineVars

\* leg[field] = value
SetField(leg, field, value) ==
    [f \in DOMAIN leg \cup {field} |-> IF f = field THEN value ELSE leg[f]]

\* The inputs createLegElement gives a leg, lines 192-217: costBasis_i for
\* a stock template, strike_i and premium_i for an option template.
LegElement(leg, strategyLeg) ==
    IF strategyLeg.type = "stock"
    THEN [costBasis |-> Text(leg.costBasis)]
    ELSE [strike |-> Text(leg.strike), premium |-> Text(leg.premium)]

\* LegAliases with the templates themselves pushed as the legs.
LegAliases_Templates(strategyKey) ==
    {<<strategyKey, i, i>> : i \in 1 .. Len(LegsOf(strategyKey))}

\* The templates that the legs generateDefaultLegs returns are the same
\* objects as: none, each leg is a new object (optionsStrategies.js, lines
\* 371 and 375-381).
LegAliases(strategyKey) == {}

\* the Pricer rejects a call that generateDefaultLegs makes
DefaultLegsRejected(strategyKey, marketParams) ==
    \E i \in 1 .. Len(LegsOf(strategyKey)) :
        /\ LegsOf(strategyKey)[i].type # "stock"
        /\ PricerRejects(
               DefaultLegOption(LegsOf(strategyKey)[i],
                                MathRound(marketParams.currentPrice
                                          + OffsetOf(LegsOf(strategyKey)[i])),
                                marketParams),
               marketParams.currentPrice, marketParams.daysToExpiration)

\* generateStrategyLegs, lines 148-166
generateStrategyLegs(w, strategyKey) ==
    IF getStrategy(strategyKey) = Null THEN w
    ELSE IF DefaultLegsRejected(strategyKey, w.app.marketParams)
    THEN [w EXCEPT !.threw = TRUE]
    ELSE LET legs == generateDefaultLegs(strategyKey,
                                         w.app.marketParams.currentPrice,
                                         w.app.marketParams)
         IN  [w EXCEPT !.app.currentLegs = legs,
                       !.aliases = LegAliases(strategyKey),
                       !.view.optionsLegs =
                           [i \in 1 .. Len(legs) |->
                               LegElement(legs[i], LegsOf(strategyKey)[i])]]

\* one iteration of updateLegsFromInputs, lines 305-322
LegFromInputs(strategyLeg, leg, inputs) ==
    IF strategyLeg.type = "stock"
    THEN IF "costBasis" \in DOMAIN inputs
         THEN SetField(leg, "costBasis", ParseFloatOrZero(inputs.costBasis))
         ELSE leg
    ELSE LET l == IF "strike" \in DOMAIN inputs
                  THEN SetField(leg, "strike", ParseFloatOrZero(inputs.strike))
                  ELSE leg
         IN  IF "premium" \in DOMAIN inputs
             THEN SetField(l, "premium", ParseFloatOrZero(inputs.premium))
             ELSE l

\* updateLegsFromInputs, lines 303-324.  The forEach throws at the first leg
\* that has no template (line 307 reads strategyLeg.type of undefined); the
\* legs before it have been updated.
UpdateLegsThrows(strategy, legs) ==
    Len(legs) > 0 /\ (strategy = Null \/ Len(legs) > Len(LegsOf(strategy)))

updateLegsFromInputs(strategy, legs, inputs) ==
    IF strategy = Null THEN legs
    ELSE [i \in 1 .. Len(legs) |->
             IF i <= Len(LegsOf(strategy))
             THEN LegFromInputs(LegsOf(strategy)[i], legs[i], inputs[i])
             ELSE legs[i]]

\* The catalog after the legs have been written: a template that is the
\* same object as a leg has the leg's fields.
CatalogAfter(cat, al, legs) ==
    [k \in DOMAIN cat |->
        [i \in 1 .. Len(cat[k]) |->
            IF \E j \in 1 .. Len(legs) : <<k, i, j>> \in al
            THEN legs[CHOOSE j \in 1 .. Len(legs) : <<k, i, j>> \in al]
            ELSE cat[k][i]]]

\* generatePriceRange does not return: its loop condition holds and an
\* iteration leaves price as it is (optionsStrategies.js, lines 330-332).
NeverReturns(cp, m) ==
    /\ LoopCond(LoopStart(cp \div 25, m))
    /\ LoopBody(LoopStart(cp \div 25, m)).price = LoopStart(cp \div 25, m).price

\* the metrics, lines 282-292
Metrics(strategy, legs, cp) ==
    [maxProfit |-> MaxProfitOf(calculateProfitLossArray(
                       strategy, legs, PriceRangeTable[cp, WideRangeFactor], 0)),
     maxLoss |-> MaxLossOf(calculateProfitLossArray(
                     strategy, legs, PriceRangeTable[cp, WideRangeFactor], 0)),
     breakevens |-> BreakevensOn(strategy, legs,
                                 PriceRangeTable[cp, DefaultRangeFactor])]

\* The chart data, lines 270-279 and 364-374, and chartManager.js line 174.  The curve
\* currentPL is the Pricer's, at each price of the range: it is held as the
\* arguments that determine it.
ChartData(strategy, legs, marketParams) ==
    [stockPrices |-> PriceRangeTable[marketParams.currentPrice, DefaultRangeFactor],
     expirationPL |-> calculateProfitLossArray(
                          strategy, legs,
                          PriceRangeTable[marketParams.currentPrice,
                                          DefaultRangeFactor], 0),
     currentPL |-> [strategy |-> strategy, legs |-> legs,
                    timeToExpiry |-> marketParams.daysToExpiration],
     breakevens |-> BreakevensOn(strategy, legs,
                                 PriceRangeTable[marketParams.currentPrice,
                                                 DefaultRangeFactor]),
     currentStockPrice |-> marketParams.currentPrice]

\* the rows of the strategy table, lines 379-406
StrategyTable(strategy, legs) ==
    [i \in 1 .. Len(legs) |->
        [action |-> LegsOf(strategy)[i].action,
         type |-> LegsOf(strategy)[i].type,
         strike |-> IF LegsOf(strategy)[i].type = "stock" THEN 0
                    ELSE legs[i].strike,
         price |-> IF LegsOf(strategy)[i].type = "stock" THEN legs[i].costBasis
                   ELSE legs[i].premium,
         quantity |-> LegsOf(strategy)[i].quantity]]

AllDisplays == {"metrics", "chart", "strategyTable"}

Run(outcome, valid, calledEngine, wrote) ==
    [outcome |-> outcome, valid |-> valid, calls |-> calledEngine,
     wrote |-> wrote]

\* updateCalculations, lines 256-298
updateCalculations(w) ==
    LET strategy == w.app.currentStrategy
        legs == updateLegsFromInputs(strategy, w.app.currentLegs,
                                     w.view.optionsLegs)
        valid == validateStrategy(strategy, legs).isValid
        cp == w.app.marketParams.currentPrice
        read == [w EXCEPT !.app.currentLegs = legs,
                          !.catalog = CatalogAfter(w.catalog, w.aliases, legs)]
    IN  IF UpdateLegsThrows(strategy, w.app.currentLegs)
        THEN [read EXCEPT !.threw = TRUE,
                          !.lastRun = Run("threw", valid, <<>>, {})]
        ELSE IF strategy = Null \/ Len(legs) = 0
        THEN [read EXCEPT !.lastRun = Run("returned", valid, <<>>, {})]
        ELSE IF ~valid
        THEN [read EXCEPT !.lastRun =
                              Run("returned", valid, <<"validateStrategy">>, {})]
        ELSE IF NeverReturns(cp, DefaultRangeFactor)
        THEN [read EXCEPT !.page = "hung",
                          !.lastRun =
                              Run("hung", valid,
                                  <<"validateStrategy", "generatePriceRange">>,
                                  {})]
        ELSE [read EXCEPT
                 !.view.metrics = Metrics(strategy, legs, cp),
                 !.view.chart = ChartData(strategy, legs, w.app.marketParams),
                 !.view.strategyTable = StrategyTable(strategy, legs),
                 !.lastRun =
                     Run("updated", valid,
                         <<"validateStrategy", "generatePriceRange",
                           "calculateProfitLossArray", "calculateProfitLossArray",
                           "calculateMaxProfit", "calculateMaxLoss",
                           "findBreakevens">>,
                         AllDisplays)]

\* onStrategyChange, lines 95-103
onStrategyChange(w, strategyKey) ==
    IF getStrategy(strategyKey) = Null THEN w
    ELSE LET generated ==
                 generateStrategyLegs(
                     [w EXCEPT !.app.currentStrategy = getStrategy(strategyKey)],
                     strategyKey)
         IN  IF generated.threw THEN generated
             ELSE updateCalculations(generated)

\* The ids setTimeout gives: a new timer gets an id that no pending timer
\* has.  At most MaxTimers timers are followed.
MaxTimers == 3

TimerIds == 1 .. MaxTimers

setTimeout(pending) ==
    IF pending = TimerIds THEN NoTimer
    ELSE CHOOSE id \in TimerIds :
             id \notin pending /\ \A i \in TimerIds \ pending : id <= i

\* debouncedUpdate, lines 465-470: clearTimeout(this.updateTimeout), then
\* this.updateTimeout = setTimeout(...)
debouncedUpdate(w) ==
    [w EXCEPT !.timers = (@ \ {w.app.updateTimeout})
                         \cup {setTimeout(w.timers \ {w.app.updateTimeout})},
              !.app.updateTimeout = setTimeout(w.timers \ {w.app.updateTimeout})]

\* onMarketParamChange, lines 110-120
onMarketParamChange(w, param, value) ==
    LET set == [w EXCEPT !.app.marketParams[param] = value]
    IN  IF set.app.currentStrategy = Null THEN debouncedUpdate(set)
        ELSE LET generated == generateStrategyLegs(set, set.view.strategySelect)
             IN  IF generated.threw THEN generated
                 ELSE debouncedUpdate(generated)

\* The page has loaded (lines 474-476): the constructor and initializeApp,
\* lines 7-29.  loadDefaultStrategy (lines 87-89) passes 'long-call'; what
\* the select shows is the document's.  A handler that throws ends there.
Construct ==
    /\ page = "loading"
    /\ \E shown \in SelectValues :
           LET loaded == onStrategyChange(
                             [Now EXCEPT !.page = "ready",
                                         !.view.strategySelect = shown],
                             "long-call")
           IN  Becomes(IF loaded.threw \/ loaded.page = "hung" THEN loaded
                       ELSE updateCalculations(loaded))

\* The user selects another strategy: the change listener, lines 36-38.
SelectStrategy ==
    /\ page = "ready"
    /\ \E strategyKey \in SelectValues \ {view.strategySelect} :
           Becomes(onStrategyChange(
                       [Now EXCEPT !.view.strategySelect = strategyKey],
                       strategyKey))

\* What the user types into a market input.
MarketInputs == [currentPrice |-> {Blank, Text(10000)}]

\* The user changes a market input: the input listener, lines 41-48.
EditMarketParam ==
    /\ page = "ready"
    /\ \E param \in DOMAIN MarketInputs :
           \E text \in MarketInputs[param] :
               Becomes(onMarketParamChange(Now, param, ParseFloatOrZero(text)))

\* What the user types into the inputs of an option leg.
LegInputTexts ==
    [strike |-> {Blank, Text(10000)},
     premium |-> {Text(500)}]

\* The user changes an input of a leg: the listener of lines 65-69.
EditLegInput ==
    /\ page = "ready"
    /\ \E i \in 1 .. Len(view.optionsLegs) :
           \E field \in DOMAIN view.optionsLegs[i] \cap DOMAIN LegInputTexts :
               \E text \in LegInputTexts[field] :
                   Becomes(debouncedUpdate(
                               [Now EXCEPT !.view.optionsLegs[i][field] = text]))

\* A pending timer fires: the callback of lines 467-469.
TimerFires ==
    /\ page = "ready"
    /\ \E id \in timers :
           Becomes(updateCalculations([Now EXCEPT !.timers = @ \ {id}]))

\* The Calculate button, lines 51-53.
ClickCalculate ==
    /\ page = "ready"
    /\ Becomes(updateCalculations(Now))

AppNext ==
    \/ Construct
    \/ SelectStrategy
    \/ EditMarketParam
    \/ EditLegInput
    \/ TimerFires
    \/ ClickCalculate

SpecApp == Init /\ [][AppNext]_vars

\* A pending timer expires: the step of TimerFires, as the window sees it.
TimerExpires ==
    /\ page = "ready"
    /\ \E id \in timers : timers' = timers \ {id}

\* A timer that stays pending while the page runs does expire.
SpecAppTimers == SpecApp /\ WF_timers(TimerExpires)

(***************************************************************************)
(* Claims about the engine calls (specification Spec).                     *)
(***************************************************************************)
\* The per-leg profit/loss at expiration as the specification states it.
ExpirationLegPL(t, leg, stockPrice) ==
    CASE t.type = "stock" /\ t.action = "own" ->
            (stockPrice - leg.costBasis) * t.quantity
      [] t.type = "call" /\ t.action = "buy" ->
            (Max(stockPrice - leg.strike, 0) - leg.premium) * t.quantity * 100
      [] t.type = "call" /\ t.action = "sell" ->
            (leg.premium - Max(stockPrice - leg.strike, 0)) * t.quantity * 100
      [] t.type = "put" /\ t.action = "buy" ->
            (Max(leg.strike - stockPrice, 0) - leg.premium) * t.quantity * 100
      [] t.type = "put" /\ t.action = "sell" ->
            (leg.premium - Max(leg.strike - stockPrice, 0)) * t.quantity * 100
      [] OTHER -> 0

RECURSIVE SumExpirationPL(_, _, _, _)
SumExpirationPL(strategy, legs, stockPrice, n) ==
    IF n = 0 THEN 0
    ELSE SumExpirationPL(strategy, legs, stockPrice, n - 1)
         + ExpirationLegPL(LegsOf(strategy)[n], legs[n], stockPrice)

\* the long call of the specification: strike 100, premium 5, quantity 1
IsLongCall100(a) ==
    /\ a.strategy = "long-call"
    /\ a.legs[1].strike = 10000
    /\ a.legs[1].premium = 500

\* the long straddle of the specification: strikes 100, premiums 5 and 5
IsStraddle100(a) ==
    /\ a.strategy = "long-straddle"
    /\ a.legs[1].strike = 10000 /\ a.legs[1].premium = 500
    /\ a.legs[2].strike = 10000 /\ a.legs[2].premium = 500

\* C1: calculateProfitLoss(strategy, legs, stockPrice, 0) returns the sum
\* over the legs of the per-leg expiration profit/loss; the long call with
\* strike 100 and premium 5 gives -500 at 100 and +500 at 110.
C1_ExpirationSum ==
    (op = "calculateProfitLoss" /\ args.timeToExpiry = 0) =>
        /\ ret = SumExpirationPL(args.strategy, args.legs, args.stockPrice,
                                 Len(args.legs))
        /\ (IsLongCall100(args) /\ args.stockPrice = 10000) => ret = -50000
        /\ (IsLongCall100(args) /\ args.stockPrice = 11000) => ret = 50000

\* C1 witness: an expiration call on a strategy with a sold option and a
\* stock leg, off the strike, has returned a non-zero profit.
C1_Witness ==
    /\ op = "calculateProfitLoss"
    /\ args.timeToExpiry = 0
    /\ args.strategy = "covered-call"
    /\ args.stockPrice = 11000
    /\ args.legs[2].premium = 300
    /\ ret = (11000 - 10000) * 100 + (300 - 1000) * 100

\* a breakeven that is exactly c cents
IsCents(b, c) == b.den # 0 /\ b.num = (c - b.lo) * b.den

\* C2 (as claimed): findBreakevens returns exactly [105.0] for the long call
\* and exactly [90.0, 110.0] for the long straddle, at currentPrice 100.
C2_OnePerZero ==
    (op = "findBreakevens" /\ args.currentPrice = 10000) =>
        /\ IsLongCall100(args) =>
              (Len(ret) = 1 /\ IsCents(ret[1], 10500))
        /\ IsStraddle100(args) =>
              (Len(ret) = 2 /\ IsCents(ret[1], 9000) /\ IsCents(ret[2], 11000))

\* C3: for the long straddle (strikes 100, premiums 5 and 5, currentPrice
\* 100) calculateMaxLoss returns -1000 and calculateMaxProfit +Infinity.
C3_StraddleExtrema ==
    (args # <<>> /\ op \in {"calculateMaxLoss", "calculateMaxProfit"}
                 /\ args.currentPrice = 10000 /\ IsStraddle100(args)) =>
        /\ op = "calculateMaxLoss" => ret = Finite(-100000)
        /\ op = "calculateMaxProfit" => ret = Infinity

\* C3 witness: calculateMaxLoss has returned for that straddle.
C3_Witness ==
    /\ op = "calculateMaxLoss"
    /\ args.currentPrice = 10000
    /\ IsStraddle100(args)
    /\ ret = Finite(-100000)

\* C4 (as claimed): for the iron condor with its default strikes and any
\* premiums >= 0, calculateMaxProfit and calculateMaxLoss return finite
\* values at every currentPrice of the range.
C4_CondorFinite ==
    (op \in {"calculateMaxLoss", "calculateMaxProfit"}
     /\ args.strategy = "iron-condor") => ret.inf = 0

(***************************************************************************)
(* Claims about generatePriceRange (specification SpecGrid).  currentPrice *)
(* is in cents and rangeFactor in quarters, so "rangeFactor > 1" reads     *)
(* rangeFactor > 4.                                                        *)
(***************************************************************************)
\* currentPrice*(2-rangeFactor) + j*(max-min)/200 rounded to 2 decimals, in
\* cents, in exact arithmetic: the value is cp*((8-m)*200 + j*(2m-8))/800.
GridPoint(cp, m, j) ==
    (cp * ((8 - m) * GridSteps + j * (2 * m - 8)) + 2 * GridSteps)
        \div (4 * GridSteps)

\* C5 (as claimed): with currentPrice > 0 and rangeFactor > 1 the call
\* returns exactly 201 values, the j-th being min + j*step rounded to two
\* decimals; generatePriceRange(100, 1.5) is 50.00, 50.50, ..., 150.00.
C5_Exactly201 ==
    (pc = "done" /\ currentPrice > 0 /\ rangeFactor > 4) =>
        /\ Len(ret.prices) = GridSteps + 1
        /\ \A j \in 0 .. GridSteps :
               ret.prices[j + 1] = GridPoint(currentPrice, rangeFactor, j)

\* C6 (as claimed): with currentPrice > 0 and rangeFactor > 1 the returned
\* sequence is strictly increasing.
C6_StrictlyIncreasing ==
    (pc = "done" /\ currentPrice > 0 /\ rangeFactor > 4) =>
        \A i \in 1 .. Len(ret.prices) - 1 : ret.prices[i] < ret.prices[i + 1]

\* C7 (as claimed): a call with rangeFactor <= 1 is rejected and never
\* returns a grid, neither an empty list nor a degenerate one.
C7_RejectsSmallFactor ==
    (pc = "done" /\ rangeFactor <= 4) => ret.kind # "prices"

\* C8 (as claimed): for currentPrice >= 0 and rangeFactor >= 1 the loop of
\* generatePriceRange ends after a bounded number of iterations, the 201 of
\* a full grid.
C8_LoopBounded ==
    (pc = "loop" /\ currentPrice >= 0 /\ rangeFactor >= 4) =>
        Len(loop.prices) <= GridSteps + 1

(***************************************************************************)
(* Claims about validateStrategy (specification Spec).                     *)
(***************************************************************************)
\* A leg instance the specification calls valid for an option template:
\* strike > 0 and premium >= 0.
ValidOptionLeg(leg) ==
    /\ "strike" \in DOMAIN leg /\ leg.strike > 0
    /\ "premium" \in DOMAIN leg /\ leg.premium >= 0

\* the option legs of a call of validateStrategy: instances with a template
\* that is not a stock template
OptionLegIndices(a) ==
    {i \in 1 .. Len(a.legs) : /\ i <= Len(LegsOf(a.strategy))
                              /\ LegsOf(a.strategy)[i].type # "stock"}

\* C9 (as claimed): an option leg with strike > 0 and premium >= 0, premium
\* exactly 0 included, produces no error; a leg set of the right count whose
\* option legs are all such is valid, with an empty errors list.
C9_AcceptsZeroPremium ==
    (op = "validateStrategy" /\ args.strategy # Null) =>
        /\ \A i \in OptionLegIndices(args) :
               ValidOptionLeg(args.legs[i]) =>
                   \A e \in 1 .. Len(ret.errors) :
                       ret.errors[e] \notin {<<"strike", i>>, <<"premium", i>>}
        /\ (/\ Len(args.legs) = Len(LegsOf(args.strategy))
            /\ \A i \in OptionLegIndices(args) : ValidOptionLeg(args.legs[i]))
           => (ret.isValid /\ ret.errors = <<>>)

\* The errors list the specification describes: one entry for a leg-count
\* mismatch, then per option leg, in leg order, one for a strike that is
\* not > 0 and one for a premium that is not >= 0.
RECURSIVE ExpectedErrors(_, _)
ExpectedErrors(a, n) ==
    IF n = 0
    THEN IF Len(a.legs) # Len(LegsOf(a.strategy)) THEN <<<<"legs">>>> ELSE <<>>
    ELSE ExpectedErrors(a, n - 1)
         \o (IF n \in OptionLegIndices(a)
                /\ ~("strike" \in DOMAIN a.legs[n] /\ a.legs[n].strike > 0)
             THEN <<<<"strike", n>>>> ELSE <<>>)
         \o (IF n \in OptionLegIndices(a)
                /\ ~("premium" \in DOMAIN a.legs[n] /\ a.legs[n].premium >= 0)
             THEN <<<<"premium", n>>>> ELSE <<>>)

\* C10 (as claimed): with a non-null strategy the errors list holds one
\* entry for a leg-count mismatch plus one per invalid strike and one per
\* invalid premium over the option legs, in leg order; isValid is true
\* exactly when the list is empty; a 2-leg strategy given a single otherwise
\* valid leg yields exactly one error and isValid = false.
C10_AccumulatesAll ==
    (op = "validateStrategy" /\ args.strategy # Null) =>
        /\ ret.errors = ExpectedErrors(args, Len(args.legs))
        /\ ret.isValid <=> (ret.errors = <<>>)
        /\ (/\ Len(LegsOf(args.strategy)) = 2
            /\ Len(args.legs) = 1
            /\ \A i \in OptionLegIndices(args) : ValidOptionLeg(args.legs[i]))
           => (Len(ret.errors) = 1 /\ ~ret.isValid)

(***************************************************************************)
(* Further claims about the engine calls (specification Spec).             *)
(***************************************************************************)
\* A leg set the specification calls valid: as many legs as templates, every
\* option leg with strike > 0 and premium >= 0.
ValidLegSet(a) ==
    /\ Len(a.legs) = Len(LegsOf(a.strategy))
    /\ \A i \in OptionLegIndices(a) : ValidOptionLeg(a.legs[i])

\* C11 (as claimed): the engine does not return a numeric curve or metric
\* for an invalid leg set (wrong leg count, an option leg with non-positive
\* strike or negative premium); it reports an error instead.
C11_RefusesInvalidLegs ==
    (op \in {"calculateProfitLoss", "findBreakevens",
             "calculateMaxProfit", "calculateMaxLoss"}) => ValidLegSet(args)

\* The net premium as the specification states it: option legs only,
\* +premium*quantity*100 for a bought leg, -premium*quantity*100 for a sold one.
RECURSIVE SumNetPremium(_, _, _)
SumNetPremium(strategy, legs, n) ==
    IF n = 0 THEN 0
    ELSE SumNetPremium(strategy, legs, n - 1)
         + (LET t == LegsOf(strategy)[n]
            IN  CASE t.type # "stock" /\ t.action = "buy" ->
                        legs[n].premium * t.quantity * 100
                  [] t.type # "stock" /\ t.action = "sell" ->
                        0 - legs[n].premium * t.quantity * 100
                  [] OTHER -> 0)

\* C12: calculateNetPremium returns the sum over the option legs of
\* +premium*quantity*100 (buy) and -premium*quantity*100 (sell), stock legs
\* contributing nothing; the covered call with premium 3 gives -300.
C12_NetPremium ==
    (op = "calculateNetPremium") =>
        /\ ret = SumNetPremium(args.strategy, args.legs, Len(args.legs))
        /\ (args.strategy = "covered-call" /\ args.legs[2].premium = 300)
               => ret = -30000

\* C12 witness: the net premium of the covered call with premium 3 has been
\* returned, the stock leg carrying a cost basis of 100.
C12_Witness ==
    /\ op = "calculateNetPremium"
    /\ args.strategy = "covered-call"
    /\ args.legs[1].costBasis = 10000
    /\ args.legs[2].premium = 300
    /\ ret = -30000

\* x cents rounded to whole dollars, halves upward, as the specification
\* states the strike of a default leg
NearestDollar(x) ==
    100 * (CHOOSE n \in -100 .. 300 : 100 * n - 50 <= x /\ x < 100 * n + 50)

\* C13: generateDefaultLegs returns one leg per template, in template order:
\* costBasis = currentPrice for a stock template, strike = round(currentPrice
\* + strikeOffset) (offset 0 by default) for an option template, volatility
\* and riskFreeRate equal to the market parameters divided by 100; for a key
\* that is not in the catalog it returns the empty list.
C13_DefaultLegs ==
    (op = "generateDefaultLegs") =>
        IF args.strategyKey \notin StrategyKeys THEN ret = <<>>
        ELSE /\ Len(ret) = Len(strategies[args.strategyKey])
             /\ \A i \in 1 .. Len(ret) :
                  LET t == strategies[args.strategyKey][i]
                  IN  /\ ret[i].action = t.action /\ ret[i].type = t.type
                      /\ ret[i].quantity = t.quantity
                      /\ 100 * ret[i].volatility
                             = 10000 * args.marketParams.volatility
                      /\ 100 * ret[i].riskFreeRate
                             = 10000 * args.marketParams.riskFreeRate
                      /\ t.type = "stock" =>
                             (/\ "costBasis" \in DOMAIN ret[i]
                              /\ ret[i].costBasis = args.currentPrice)
                      /\ t.type # "stock" =>
                             (/\ "strike" \in DOMAIN ret[i]
                              /\ ret[i].strike = NearestDollar(
                                     args.currentPrice
                                     + (IF "strikeOffset" \in DOMAIN t
                                        THEN 100 * t.strikeOffset ELSE 0)))

\* C13 witness: the default legs of the iron condor at a price of 100.50
\* have been returned, the first strike being 91.
C13_Witness ==
    /\ op = "generateDefaultLegs"
    /\ args.strategyKey = "iron-condor"
    /\ args.currentPrice = 10050
    /\ Len(ret) = 4
    /\ ret[1].strike = 9100

\* The Pricer calls the specification describes for calculateProfitLoss from
\* leg n down: one per option leg, with the leg's own stored rate and
\* volatility.
RECURSIVE StoredRateCalls(_, _)
StoredRateCalls(a, n) ==
    IF n = 0 THEN <<>>
    ELSE StoredRateCalls(a, n - 1)
         \o (IF n \in OptionLegIndices(a)
             THEN <<[option |-> [type |-> LegsOf(a.strategy)[n].type,
                                 strike |-> a.legs[n].strike,
                                 timeToExpiry |-> a.timeToExpiry,
                                 riskFreeRate |-> a.legs[n].riskFreeRate,
                                 volatility |-> a.legs[n].volatility],
                     stockPrice |-> a.stockPrice,
                     timeToExpiry |-> a.timeToExpiry]>>
             ELSE <<>>)

\* C14 (as claimed): with timeToExpiry not 0 calculateProfitLoss calls the
\* Pricer once per option leg with the leg's type and strike, the stock
\* price, timeToExpiry and the leg's stored riskFreeRate and volatility,
\* unchanged, a stored riskFreeRate of 0 included; with timeToExpiry 0 it
\* does not call the Pricer.
C14_StoredRatePassed ==
    (op = "calculateProfitLoss") =>
        IF args.timeToExpiry = 0 THEN calls = <<>>
        ELSE calls = StoredRateCalls(args, Len(args.legs))

\* The expiration curve of a call's strategy and legs over a grid, from the
\* per-leg formulas of the specification, for the indices lo..hi.
RECURSIVE ExpirationCurve(_, _, _, _)
ExpirationCurve(a, x, lo, hi) ==
    IF lo > hi THEN <<>>
    ELSE IF lo = hi
    THEN <<SumExpirationPL(a.strategy, a.legs, x[lo], Len(a.legs))>>
    ELSE ExpirationCurve(a, x, lo, (lo + hi) \div 2)
         \o ExpirationCurve(a, x, (lo + hi) \div 2 + 1, hi)

\* The entries the specification describes for the pairs (i-1, i), i in
\* lo..hi, of a curve y over a grid x: x[i-1] + ratio * (x[i] - x[i-1]) with
\* ratio = |y[i-1]| / (|y[i-1]| + |y[i]|), kept as [lo, num, den].
RECURSIVE CrossingEntries(_, _, _, _)
CrossingEntries(x, y, lo, hi) ==
    IF lo > hi THEN <<>>
    ELSE IF lo = hi
    THEN IF \/ (y[lo - 1] <= 0 /\ y[lo] >= 0)
            \/ (y[lo - 1] >= 0 /\ y[lo] <= 0)
         THEN <<[lo |-> x[lo - 1],
                 num |-> Abs(y[lo - 1]) * (x[lo] - x[lo - 1]),
                 den |-> Abs(y[lo - 1]) + Abs(y[lo])]>>
         ELSE <<>>
    ELSE CrossingEntries(x, y, lo, (lo + hi) \div 2)
         \o CrossingEntries(x, y, (lo + hi) \div 2 + 1, hi)

\* a <= b for two returned breakevens: both are numbers (not NaN, the value
\* of 0/0) and lo + num/den of a is at most that of b
BreakevenLeq(a, b) ==
    /\ a.den # 0
    /\ b.den # 0
    /\ \/ a.lo + (a.num \div a.den) < b.lo + (b.num \div b.den)
       \/ /\ a.lo + (a.num \div a.den) = b.lo + (b.num \div b.den)
          /\ (a.num % a.den) * b.den <= (b.num % b.den) * a.den

\* C19 (as claimed): findBreakevens returns, in index order and with no
\* other entries, the interpolated value of every pair of neighbouring grid
\* points between which the expiration curve touches or crosses zero, and
\* the returned list is in ascending (non-decreasing) price order.
C19_InterpolatedAscending ==
    (op = "findBreakevens") =>
        /\ LET x == PriceRangeTable[args.currentPrice, DefaultRangeFactor]
           IN  ret = CrossingEntries(x, ExpirationCurve(args, x, 1, Len(x)),
                                     2, Len(x))
        /\ \A k \in 1 .. Len(ret) - 1 : BreakevenLeq(ret[k], ret[k + 1])

\* C20 (as claimed): calculateMaxProfit evaluates the expiration curve on
\* the grid of rangeFactor 2, prices from 0 to 2*currentPrice, and returns
\* +Infinity exactly when the rightmost sample equals the sample maximum and
\* is greater than the second-to-rightmost one, the sample maximum otherwise.
C20_MaxProfitHeuristic ==
    (op = "calculateMaxProfit") =>
        LET x == [j \in 1 .. GridSteps + 1 |->
                     GridPoint(args.currentPrice, WideRangeFactor, j - 1)]
            y == ExpirationCurve(args, x, 1, Len(x))
        IN  /\ x[1] = 0
            /\ x[Len(x)] = 2 * args.currentPrice
            /\ ret = IF y[Len(y)] = MaxOver(y, 1, Len(y))
                        /\ y[Len(y)] > y[Len(y) - 1]
                     THEN [inf |-> 1, v |-> 0]
                     ELSE [inf |-> 0, v |-> MaxOver(y, 1, Len(y))]

\* the least sample of a curve
LeastSample(y) ==
    CHOOSE v \in {y[j] : j \in 1 .. Len(y)} : \A j \in 1 .. Len(y) : v <= y[j]

\* C21: calculateMaxLoss evaluates the expiration curve on
\* generatePriceRange(currentPrice, 2) and returns -Infinity exactly when
\* the leftmost sample is the sample minimum and lower than the second
\* sample, or the rightmost sample is the sample minimum and lower than the
\* second-to-rightmost one; otherwise it returns the sample minimum.
C21_MaxLossHeuristic ==
    (op = "calculateMaxLoss") =>
        LET x == PriceRangeTable[args.currentPrice, WideRangeFactor]
            y == ExpirationCurve(args, x, 1, Len(x))
        IN  ret = IF \/ (y[1] = LeastSample(y) /\ y[1] < y[2])
                     \/ (y[Len(y)] = LeastSample(y) /\ y[Len(y)] < y[Len(y) - 1])
                  THEN [inf |-> -1, v |-> 0]
                  ELSE [inf |-> 0, v |-> LeastSample(y)]

\* the short put at 100: the loss is largest at the left edge of the grid,
\* and -Infinity is returned
C21_Witness ==
    /\ op = "calculateMaxLoss"
    /\ args.strategy = "short-put"
    /\ args.currentPrice = 10000
    /\ args.legs[1].premium = 300
    /\ ret = NegInfinity

\* a returned breakeven b is a number (its ratio is not 0/0) between the two
\* neighbouring points x[i-1] and x[i] of some index i of the grid x
WithinCrossing(b, x) ==
    /\ b.den # 0
    /\ \E i \in 2 .. Len(x) :
           /\ b.lo = x[i - 1]
           /\ 0 <= b.num
           /\ b.num <= b.den * (x[i] - x[i - 1])

\* C22 (as claimed): every value findBreakevens returns for a leg set that
\* passes validateStrategy is a finite price, never NaN, between the two
\* grid points of its crossing, also when the expiration curve is zero over
\* a run of consecutive grid points.
C22_BreakevensWellDefined ==
    (/\ op = "findBreakevens"
     /\ validateStrategy(args.strategy, args.legs).isValid) =>
        \A k \in 1 .. Len(ret) :
            WithinCrossing(ret[k],
                           PriceRangeTable[args.currentPrice, DefaultRangeFactor])

\* C23 (as claimed): for every catalog strategy key and every currentPrice
\* above 0, the legs generateDefaultLegs returns pass validateStrategy
\* against that strategy.
C23_DefaultLegsValid ==
    (/\ op = "generateDefaultLegs"
     /\ args.strategyKey \in StrategyKeys
     /\ args.currentPrice > 0) =>
        validateStrategy(getStrategy(args.strategyKey), ret).isValid

\* strategy r is strategy o reversed: the same templates with 'buy' and
\* 'sell' swapped in every one of them, none of them a stock template
IsReversalOf(r, o) ==
    /\ Len(LegsOf(r)) = Len(LegsOf(o))
    /\ \A i \in 1 .. Len(LegsOf(o)) :
           /\ LegsOf(o)[i].type # "stock"
           /\ LegsOf(r)[i].type = LegsOf(o)[i].type
           /\ LegsOf(r)[i].quantity = LegsOf(o)[i].quantity
           /\ \/ (LegsOf(o)[i].action = "buy" /\ LegsOf(r)[i].action = "sell")
              \/ (LegsOf(o)[i].action = "sell" /\ LegsOf(r)[i].action = "buy")

\* -m for a returned extremum m, with -(+Infinity) = -Infinity
Negated(m) == [inf |-> 0 - m.inf, v |-> 0 - m.v]

\* C24 (as claimed): profit and loss are mirror images under position
\* reversal.  With the same legs and currentPrice, calculateMaxLoss of the
\* reversed strategy is minus calculateMaxProfit of the original one, and
\* calculateMaxProfit of the reversed strategy is minus calculateMaxLoss of
\* the original one.
C24_ReversalMirrors ==
    /\ (op = "calculateMaxLoss") =>
           \A o \in StrategyKeys :
               IsReversalOf(args.strategy, o) =>
                   ret = Negated(MaxProfitOf(calculateProfitLossArray(
                             o, args.legs,
                             PriceRangeTable[args.currentPrice, WideRangeFactor],
                             0)))
    /\ (op = "calculateMaxProfit") =>
           \A o \in StrategyKeys :
               IsReversalOf(args.strategy, o) =>
                   ret = Negated(MaxLossOf(calculateProfitLossArray(
                             o, args.legs,
                             PriceRangeTable[args.currentPrice, WideRangeFactor],
                             0)))


(***************************************************************************)
(* The application: the catalog, the legs and what is displayed.           *)
(***************************************************************************)
\* what is displayed is what the engine returns for the application's
\* strategy, legs and price, whenever the table shows these legs and the
\* chart this price
DisplayRepeatable ==
    (/\ view.chart # InitialContent
     /\ validateStrategy(app.currentStrategy, app.currentLegs).isValid
     /\ view.chart.currentStockPrice = app.marketParams.currentPrice
     /\ view.strategyTable = StrategyTable(app.currentStrategy, app.currentLegs))
    => /\ view.metrics = Metrics(app.currentStrategy, app.currentLegs,
                                 app.marketParams.currentPrice)
       /\ view.chart = ChartData(app.currentStrategy, app.currentLegs,
                                 app.marketParams)

C17_LegsMatchTemplates ==
    page # "loading" =>
        /\ app.currentStrategy # Null
        /\ Len(app.currentLegs) = Len(LegsOf(app.currentStrategy))
        /\ \A i \in 1 .. Len(app.currentLegs) :
               ("costBasis" \in DOMAIN app.currentLegs[i])
               <=> (LegsOf(app.currentStrategy)[i].type = "stock")

\* the engine's entry points that updateCalculations calls after
\* validateStrategy
ComputingCalls ==
    {"generatePriceRange", "calculateProfitLossArray", "calculateMaxProfit",
     "calculateMaxLoss", "findBreakevens"}

\* C18: a run of updateCalculations with a leg set that is not valid (or no
\* strategy, or no legs) calls none of the computing entry points and
\* writes none of the metrics cards, the chart and the strategy table; a
\* run with a valid leg set writes all three.
C18_UpdateAllOrNothing ==
    lastRun.outcome # "none" =>
        IF lastRun.valid
        THEN lastRun.wrote = AllDisplays
        ELSE /\ \A i \in 1 .. Len(lastRun.calls) :
                    lastRun.calls[i] \notin ComputingCalls
             /\ lastRun.wrote = {}


\* C25 (as claimed): debouncedUpdate keeps at most one update timer
\* pending, and every burst of debouncedUpdate calls is eventually followed
\* by the one timer-driven updateCalculations: a timer that is pending
\* fires, after which, until the next call, none is pending.
C25_OneTimedUpdate ==
    /\ [](Cardinality(timers) <= 1)
    /\ (timers # {}) ~> (timers = {})

====
